---- MODULE Spec2Model ----
(***************************************************************************)
(* MultiTransport (src/src/uploader/multi_transport.js): a resumable       *)
(* multipart upload session.  The session object, the start() coroutines   *)
(* the caller has launched on it, the async queue each of them drives, the *)
(* remote multipart sessions and the debounced idle timer are the state;   *)
(* every caller operation and every I/O completion is one action.          *)
(*                                                                         *)
(* Sizes are counted in units of 10 MiB, so kPartSize (20 MiB) is 2.       *)
(***************************************************************************)
EXTENDS Integers, Sequences, FiniteSets, TLC

\* ------------------------------------------------------------- bounds ----
\* Number of start() calls the caller makes on the session.
MaxStarts == 2
\* Size of the local file (units of 10 MiB): 5 gives the parts 2, 2, 1.
FileSize == 5
\* Bounds of the inputs enumerated for _decompose on its own.
MaxTotal == 7
MaxAccepted == 3
MaxMaxParts == 4

\* ---------------------------------------------------------- constants ----
\* const kPartSize = 20 * 1024 * 1024, in units of 10 MiB.
kPartSize == 2
\* maxParts as the service returns it from listParts (at most 1000 parts).
ServiceMaxParts == 1000
\* The 4 GiB ceiling of _computedFileMD5, scaled down with the file sizes.
kHashCeiling == 4
\* mtime.getTime() of the local file.
LocalMTime == 7

TransportOrigin == "bce-client"
LocalMD5 == "md5-local"

Inv == 1..MaxStarts

VARIABLES
    _paused,        \* this._paused
    _uploadId,      \* this._uploadId; 0 is undefined
    _stream,        \* this._stream: the coroutine whose _invoke made it; 0 is undefined
    _queue,         \* this._queue: the coroutine whose resume() made it; 0 is null
    _uploadedSize,  \* this._uploadedSize
    _md5sum,        \* this._md5sum; "" is undefined
    timer,          \* the debounced _checkAlive call is pending
    fileExists,     \* the local path exists
    co,             \* per start() call: where the coroutine is suspended
    q,              \* per start() call: the async queue made by its resume()
    plan,           \* per start() call: what listParts returned and what _decompose made of it
    term,           \* per start() call: the terminal notifications it led to: its own, and
                    \* the first one a pause() call emitted while it was running
    nSessions,      \* remote: multipart sessions initiated
    rparts,         \* remote: the parts each session has accepted
    rclosed,        \* remote: the sessions completed
    out,            \* the lifecycle notifications (start, pause, finish, error) the last step emitted
    dec,            \* _decompose applied to enumerated inputs
    cc              \* _checkConsistency applied to enumerated inputs

vars == <<_paused, _uploadId, _stream, _queue, _uploadedSize, _md5sum, timer, fileExists,
          co, q, plan, term, nSessions, rparts, rclosed, out, dec, cc>>

sessionFields == <<_paused, _uploadId, _stream, _queue, _uploadedSize, _md5sum>>
remoteVars == <<nSessions, rparts, rclosed>>
pureVars == <<dec, cc>>

\* ------------------------------------------------------------ helpers ----
Min(a, b) == IF a < b THEN a ELSE b
Max(a, b) == IF a > b THEN a ELSE b

NoPart == [partNumber |-> 0, partSize |-> 0, start |-> 0, uploadId |-> 0]
NoRes == [status |-> 0, xMetaSize |-> 0, xMetaFrom |-> "", xMetaMD5 |-> "", xMetaModifiedTime |-> 0]

Ev(type, by, error) == [type |-> type, by |-> by, error |-> error]

\* The errors the start sequence can catch.
ENOENT == [kind |-> "Error", message |-> "ENOENT", status_code |-> 0]
FileNotFound == [kind |-> "Error", message |-> "file not found undefined", status_code |-> 0]
ServerError == [kind |-> "status", message |-> "", status_code |-> 500]
StreamError == [kind |-> "other", message |-> "", status_code |-> 0]

\* parts.sort((lhs, rhs) => lhs.partNumber - rhs.partNumber)
RECURSIVE SortParts(_)
SortParts(S) ==
    IF S = {} THEN <<>>
    ELSE LET p == CHOOSE x \in S : \A y \in S : x.partNumber <= y.partNumber
         IN <<p>> \o SortParts(S \ {p})

\* parts.reduce((pre, cur) => pre + cur.size, 0)
RECURSIVE SumSizes(_)
SumSizes(s) == IF s = <<>> THEN 0 ELSE Head(s).size + SumSizes(Tail(s))

\* ----------------------------------------------------- pure functions ----
\* A JavaScript number that may be Infinity or NaN: x / 0 does not throw.
Num(n) == [k |-> "num", v |-> n]
Infinity == [k |-> "inf", v |-> 0]
NaN == [k |-> "nan", v |-> 0]

\* Math.ceil(a / b) for a >= 0.
CeilDiv(a, b) ==
    IF b = 0 THEN (IF a = 0 THEN NaN ELSE Infinity)
    ELSE IF b > 0 THEN Num((a + b - 1) \div b)
    ELSE Num(-(a \div (-b)))

\* Math.max(n, x) for a finite n.
MathMax(n, x) ==
    IF x.k = "num" THEN Num(Max(n, x.v)) ELSE x

\* Math.min(n, x) for a finite n; n stands for the NaN result, which no loop
\* iteration can see: x is NaN only when totalSize is 0, and then leftSize <= 0.
MathMin(n, x) ==
    IF x.k = "num" THEN Min(n, x.v) ELSE n

\* The while loop of _decompose.
RECURSIVE Carve(_, _, _, _)
Carve(leftSize, offset, partNumber, averagePartSize) ==
    IF leftSize > 0
    THEN LET partSize == MathMin(leftSize, averagePartSize)
         IN <<[partNumber |-> partNumber, partSize |-> partSize, start |-> offset]>>
            \o Carve(leftSize - partSize, offset + partSize, partNumber + 1, averagePartSize)
    ELSE <<>>

\* _decompose with the offset restarted at 0: the uploaded prefix is cut again.
_decompose_fromZero(orderedParts, maxParts, uploadSize, totalSize) ==
    LET minPartSize == CeilDiv(totalSize, maxParts - Len(orderedParts))
        averagePartSize == MathMax(kPartSize, minPartSize)
    IN Carve(totalSize - uploadSize, 0, Len(orderedParts) + 1, averagePartSize)

_decompose(orderedParts, maxParts, uploadSize, totalSize) ==
    LET minPartSize == CeilDiv(totalSize, maxParts - Len(orderedParts))
        averagePartSize == MathMax(kPartSize, minPartSize)
    IN Carve(totalSize - uploadSize, uploadSize, Len(orderedParts) + 1, averagePartSize)

\* _checkFinish and _checkError, as the new value of _paused and the event emitted.
_checkFinish(paused, i) ==
    IF paused THEN [paused |-> TRUE, ev |-> Ev("pause", i, "")]
    ELSE [paused |-> TRUE, ev |-> Ev("finish", i, "")]

ErrText(err) ==
    IF err.kind = "string" THEN err.message
    ELSE IF err.kind = "Error" THEN err.message
    ELSE IF err.kind = "status" THEN "Server code"
    ELSE "unknown"

_checkError(paused, i, err) ==
    IF paused THEN [paused |-> TRUE, ev |-> Ev("pause", i, "")]
    ELSE [paused |-> TRUE, ev |-> Ev("error", i, ErrText(err))]

\* The condition of _computedFileMD5: !this._md5sum && !size < 4 GiB, where
\* !size is a boolean that < converts to 0 or 1.
ToNumber(b) == IF b THEN 1 ELSE 0
ShouldHash(md5sum, size) == md5sum = "" /\ ToNumber(size = 0) < kHashCeiling

\* What _computedFileMD5 returns once it has run.
_computedFileMD5(md5sum, size) == IF ShouldHash(md5sum, size) THEN LocalMD5 ELSE md5sum

\* A getObjectMetadata response: status 404, another failure, or the headers.
MetaResponses ==
    {[NoRes EXCEPT !.status = 404], [NoRes EXCEPT !.status = 500]} \cup
    [status : {200},
     xMetaSize : {FileSize, FileSize + 1},
     xMetaFrom : {TransportOrigin, "other", ""},
     xMetaMD5 : {"", LocalMD5, "md5-other"},
     xMetaModifiedTime : {LocalMTime, LocalMTime + 1}]

_fetchMetadata(res) ==
    [xMetaSize |-> res.xMetaSize, xMetaFrom |-> res.xMetaFrom,
     xMetaModifiedTime |-> res.xMetaModifiedTime, xMetaMD5 |-> res.xMetaMD5]

\* _checkConsistency reads the local hash only on this path.
NeedsHash(size, res) ==
    /\ res.status = 200
    /\ size = _fetchMetadata(res).xMetaSize
    /\ _fetchMetadata(res).xMetaFrom = TransportOrigin
    /\ _fetchMetadata(res).xMetaMD5 # ""

\* _checkConsistency without the modification-time branch.
_checkConsistency_noMTime(size, mtime, res, md5sum) ==
    IF res.status = 404 THEN "false"
    ELSE IF res.status # 200 THEN "throw"
    ELSE LET m == _fetchMetadata(res) IN
         IF size = m.xMetaSize
         THEN IF m.xMetaFrom = TransportOrigin /\ m.xMetaMD5 # "" /\ m.xMetaMD5 # md5sum
              THEN "false"
              ELSE "true"
         ELSE "false"

\* _checkConsistency: "true", "false" or "throw"; md5sum is what
\* _computedFileMD5 returned (read only when NeedsHash).
_checkConsistency(size, mtime, res, md5sum) ==
    IF res.status = 404 THEN "false"
    ELSE IF res.status # 200 THEN "throw"
    ELSE LET m == _fetchMetadata(res) IN
         IF size = m.xMetaSize
         THEN IF m.xMetaFrom = TransportOrigin
              THEN IF m.xMetaMD5 # ""
                   THEN (IF m.xMetaMD5 # md5sum THEN "false" ELSE "true")
                   ELSE (IF mtime # m.xMetaModifiedTime THEN "false" ELSE "true")
              ELSE "true"
         ELSE "false"

\* The part stream and its request (the patched client, ../fake_client): 'abort'
\* emitted on a stream whose request is in flight makes the request fail; on a
\* stream whose request has settled, or has been aborted, it changes nothing.
StreamAbort(run, cause) == IF run = "open" THEN cause ELSE run

\* How the request of a stream can settle: one in flight succeeds or fails, an
\* aborted one, or one reading a missing file, fails.
Settles(run, ok) ==
    IF ok THEN run = "open" ELSE run \in {"open", "pauseAbort", "timerAbort", "broken"}

\* -------------------------------------------------------------- state ----
CoIdle == [pc |-> "idle", sid |-> 0, res |-> NoRes, parts |-> <<>>]
CoDone == [pc |-> "done", sid |-> 0, res |-> NoRes, parts |-> <<>>]
CoAt(pc, sid) == [pc |-> pc, sid |-> sid, res |-> NoRes, parts |-> <<>>]
QNone == [run |-> "none", tasks |-> <<>>, cur |-> NoPart, killed |-> FALSE]
NoPlan == [made |-> FALSE, listed |-> <<>>, remain |-> <<>>]
NoDec == [done |-> FALSE, orderedParts |-> <<>>, maxParts |-> 0, uploadSize |-> 0,
          totalSize |-> 0, remainParts |-> <<>>]
NoCc == [done |-> FALSE, res |-> NoRes, cached |-> "", result |-> ""]

\* The session as the constructor leaves it, the remote without a session.
InitSession ==
    /\ _paused = TRUE
    /\ _uploadId = 0
    /\ _stream = 0
    /\ _queue = 0
    /\ _uploadedSize = 0
    /\ _md5sum = ""
    /\ timer = FALSE
    /\ fileExists = TRUE
    /\ co = [i \in Inv |-> CoIdle]
    /\ q = [i \in Inv |-> QNone]
    /\ plan = [i \in Inv |-> NoPlan]
    /\ term = [i \in Inv |-> 0]
    /\ nSessions = 0
    /\ rparts = [u \in Inv |-> {}]
    /\ rclosed = {}
    /\ out = <<>>

Init == InitSession /\ dec = NoDec /\ cc = NoCc

InFlight(i) == co[i].pc \notin {"idle", "done"}

\* One more terminal notification for each coroutine of S.
Bump(S) == [j \in Inv |-> IF j \in S THEN term[j] + 1 ELSE term[j]]

\* The coroutine i ends through _checkFinish or _checkError with outcome r.
Terminal(i, r) ==
    /\ co' = [co EXCEPT ![i] = CoDone]
    /\ _paused' = r.paused
    /\ out' = <<r.ev>>
    /\ term' = Bump({i})

\* The coroutine i suspends at pc, with nothing emitted.
Suspend(i, c) ==
    /\ co' = [co EXCEPT ![i] = c]
    /\ out' = <<>>
    /\ UNCHANGED <<_paused, term>>

\* ------------------------------------------------------------ actions ----
\* start() with _paused reset only after the existence check.
start_lateReset(i) ==
    /\ co[i].pc = "idle"
    /\ \A j \in Inv : j < i => co[j].pc # "idle"
    /\ IF ~fileExists
       THEN Terminal(i, _checkError(_paused, i, FileNotFound))
       ELSE /\ _paused' = FALSE
            /\ co' = [co EXCEPT ![i] = IF _uploadId = 0 THEN CoAt("meta", 0)
                                                        ELSE CoAt("list", _uploadId)]
            /\ out' = <<>>
            /\ term' = term
    /\ UNCHANGED <<_uploadId, _stream, _queue, _uploadedSize, _md5sum, timer, fileExists,
                   q, plan, remoteVars, pureVars>>

\* start() that checks consistency whether or not an upload id is held.
start_alwaysChecks(i) ==
    /\ co[i].pc = "idle"
    /\ \A j \in Inv : j < i => co[j].pc # "idle"
    /\ IF ~fileExists
       THEN Terminal(i, _checkError(FALSE, i, FileNotFound))
       ELSE /\ _paused' = FALSE
            /\ co' = [co EXCEPT ![i] = CoAt("meta", 0)]
            /\ out' = <<>>
            /\ term' = term
    /\ UNCHANGED <<_uploadId, _stream, _queue, _uploadedSize, _md5sum, timer, fileExists,
                   q, plan, remoteVars, pureVars>>

\* start(): up to its first await.
start(i) ==
    /\ co[i].pc = "idle"
    /\ \A j \in Inv : j < i => co[j].pc # "idle"
    /\ IF ~fileExists
       THEN Terminal(i, _checkError(FALSE, i, FileNotFound))
       ELSE /\ _paused' = FALSE
            /\ co' = [co EXCEPT ![i] = IF _uploadId = 0 THEN CoAt("meta", 0)
                                                        ELSE CoAt("list", _uploadId)]
            /\ out' = <<>>
            /\ term' = term
    /\ UNCHANGED <<_uploadId, _stream, _queue, _uploadedSize, _md5sum, timer, fileExists,
                   q, plan, remoteVars, pureVars>>

\* pause()
pause ==
    /\ _paused' = TRUE
    /\ IF _stream # 0
       THEN /\ q' = [q EXCEPT ![_stream].run = StreamAbort(@, "pauseAbort")]
            /\ out' = <<>>
            /\ term' = term
       ELSE /\ out' = <<Ev("pause", 0, "")>>
            /\ term' = Bump({j \in Inv : InFlight(j) /\ term[j] = 0})
            /\ q' = q
    /\ UNCHANGED <<_uploadId, _stream, _queue, _uploadedSize, _md5sum, timer, fileExists,
                   co, plan, remoteVars, pureVars>>

\* The coroutine i returns from start() through _checkFinish right after the
\* consistency check; the response the check answered true to stays on record.
Consistent(i, res) ==
    /\ co' = [co EXCEPT ![i] = [CoDone EXCEPT !.res = res]]
    /\ _paused' = _checkFinish(_paused, i).paused
    /\ out' = <<_checkFinish(_paused, i).ev>>
    /\ term' = Bump({i})

\* start() without the return on a consistent remote object: it uploads anyway.
AfterCheck_noReturn(i, r, res) ==
    IF r = "throw" THEN Terminal(i, _checkError(_paused, i, ServerError))
    ELSE Suspend(i, CoAt("init", 0))

\* What follows _checkConsistency in start(): finish, initiate, or the catch.
AfterCheck(i, r, res) ==
    IF r = "true" THEN Consistent(i, res)
    ELSE IF r = "false" THEN Suspend(i, CoAt("init", 0))
    ELSE Terminal(i, _checkError(_paused, i, ServerError))

\* getObjectMetadata settles: the rest of _checkConsistency up to its next await.
getObjectMetadataDone(i, res) ==
    /\ co[i].pc = "meta"
    /\ IF NeedsHash(FileSize, res) /\ ~fileExists
       THEN Terminal(i, _checkError(_paused, i, ENOENT))
       ELSE IF NeedsHash(FileSize, res) /\ ShouldHash(_md5sum, FileSize)
       THEN Suspend(i, [CoAt("md5", 0) EXCEPT !.res = res])
       ELSE AfterCheck(i, _checkConsistency(FileSize, LocalMTime, res, _md5sum), res)
    /\ UNCHANGED <<_uploadId, _stream, _queue, _uploadedSize, _md5sum, timer, fileExists,
                   q, plan, remoteVars, pureVars>>

\* crypto.md5stream settles inside _checkConsistency.
checkMD5Done(i) ==
    /\ co[i].pc = "md5"
    /\ IF fileExists
       THEN /\ _md5sum' = LocalMD5
            /\ AfterCheck(i, _checkConsistency(FileSize, LocalMTime, co[i].res, LocalMD5), co[i].res)
       ELSE /\ _md5sum' = _md5sum
            /\ Terminal(i, _checkError(_paused, i, ENOENT))
    /\ UNCHANGED <<_uploadId, _stream, _queue, _uploadedSize, timer, fileExists,
                   q, plan, remoteVars, pureVars>>

\* initiateMultipartUpload settles: _uploadId is set and listParts is issued.
initiateDone(i, ok) ==
    /\ co[i].pc = "init"
    /\ IF ok
       THEN /\ nSessions' = nSessions + 1
            /\ _uploadId' = nSessions + 1
            /\ Suspend(i, CoAt("list", nSessions + 1))
       ELSE /\ UNCHANGED <<nSessions, _uploadId>>
            /\ Terminal(i, _checkError(_paused, i, ServerError))
    /\ UNCHANGED <<_stream, _queue, _uploadedSize, _md5sum, timer, fileExists,
                   q, plan, rparts, rclosed, pureVars>>

\* _invoke: the put-part request made for a task, with this._uploadId as it is now.
_invoke(task) ==
    [partNumber |-> task.partNumber, partSize |-> task.partSize, start |-> task.start,
     uploadId |-> _uploadId]

\* q.process() of a queue with these tasks: the worker runs on the first one.
Process(tasks, killed) ==
    IF tasks # <<>>
    THEN [run |-> IF fileExists THEN "open" ELSE "broken", tasks |-> Tail(tasks),
          cur |-> _invoke(Head(tasks)), killed |-> killed]
    ELSE [run |-> "idle", tasks |-> <<>>, cur |-> NoPart, killed |-> killed]

\* resume(remainParts): a new queue, its processing scheduled by push().
resume(remainParts) ==
    [run |-> "sched", tasks |-> remainParts, cur |-> NoPart, killed |-> FALSE]

\* _completeUpload up to its first await: listParts on this._uploadId.
_completeUpload == CoAt("clist", _uploadId)

\* listParts settles in start(): the plan is made and the upload begins.
listPartsDone(i, ok) ==
    /\ co[i].pc = "list"
    /\ ok => co[i].sid \notin rclosed
    /\ IF ok
       THEN LET orderedParts == SortParts(rparts[co[i].sid])
                uploaded == SumSizes(orderedParts)
                remainParts == _decompose(orderedParts, ServiceMaxParts, uploaded, FileSize)
            IN /\ _uploadedSize' = uploaded
               /\ plan' = [plan EXCEPT ![i] = [made |-> TRUE, listed |-> orderedParts,
                                               remain |-> remainParts]]
               /\ IF remainParts # <<>>
                  THEN /\ co' = [co EXCEPT ![i] = CoAt("upload", 0)]
                       /\ out' = <<Ev("start", i, "")>>
                       /\ q' = [q EXCEPT ![i] = resume(remainParts)]
                       /\ _queue' = i
                  ELSE /\ co' = [co EXCEPT ![i] = _completeUpload]
                       /\ out' = <<>>
                       /\ UNCHANGED <<q, _queue>>
               /\ UNCHANGED <<_paused, term>>
       ELSE /\ Terminal(i, _checkError(_paused, i, ServerError))
            /\ UNCHANGED <<_uploadedSize, plan, q, _queue>>
    /\ UNCHANGED <<_uploadId, _stream, _md5sum, timer, fileExists, remoteVars, pureVars>>

\* The setImmediate of push(): the queue starts its first task, unless killed since.
queueProcess(i) ==
    /\ q[i].run = "sched"
    /\ q' = [q EXCEPT ![i] = Process(q[i].tasks, q[i].killed)]
    /\ _stream' = IF q[i].tasks # <<>> THEN i ELSE _stream
    /\ out' = <<>>
    /\ UNCHANGED <<_paused, _uploadId, _queue, _uploadedSize, _md5sum, timer, fileExists,
                   co, plan, term, remoteVars, pureVars>>

\* The queue the error handler kills: this._queue, whoever made it.
Killed(ok) == IF ok THEN 0 ELSE _queue

\* A put-part request settles: done() or done(err), the queue's next step, and
\* the continuation of start() when the promise of resume() settles.
putPartDone(i, ok) ==
    /\ Settles(q[i].run, ok)
    /\ ok => q[i].cur.uploadId \notin rclosed
    /\ LET cur == q[i].cur
           k == Killed(ok)
           tasks1 == [j \in Inv |-> IF j = k THEN <<>> ELSE q[j].tasks]
           killed1 == [j \in Inv |-> q[j].killed \/ j = k]
           drained == tasks1[i] = <<>> /\ ~killed1[i]
       IN /\ q' = [j \in Inv |->
                     IF j = i THEN Process(tasks1[i], killed1[i])
                     ELSE [q[j] EXCEPT !.tasks = tasks1[j], !.killed = killed1[j]]]
          /\ _stream' = IF tasks1[i] # <<>> THEN i ELSE _stream
          /\ rparts' = IF ok
                       THEN [rparts EXCEPT ![cur.uploadId] =
                               {p \in @ : p.partNumber # cur.partNumber}
                               \cup {[partNumber |-> cur.partNumber, size |-> cur.partSize]}]
                       ELSE rparts
          /\ _uploadedSize' = IF ok THEN _uploadedSize + cur.partSize ELSE _uploadedSize
          /\ IF co[i].pc = "upload" /\ ~ok
             THEN Terminal(i, _checkError(_paused, i, StreamError))
             ELSE IF co[i].pc = "upload" /\ drained
             THEN Suspend(i, _completeUpload)
             ELSE co' = co /\ out' = <<>> /\ UNCHANGED <<_paused, term>>
    /\ UNCHANGED <<_uploadId, _queue, _md5sum, timer, fileExists, plan, nSessions, rclosed,
                   pureVars>>

\* listParts settles in _completeUpload: stat, sort, then the hash or the call.
completeListDone(i, ok) ==
    /\ co[i].pc = "clist"
    /\ ok => co[i].sid \notin rclosed
    /\ IF ~ok
       THEN Terminal(i, _checkError(_paused, i, ServerError))
       ELSE IF ~fileExists
       THEN Terminal(i, _checkError(_paused, i, ENOENT))
       ELSE LET orderedPartList == SortParts(rparts[co[i].sid])
            IN IF ShouldHash(_md5sum, FileSize)
               THEN Suspend(i, [CoAt("cmd5", 0) EXCEPT !.parts = orderedPartList])
               ELSE Suspend(i, [CoAt("complete", _uploadId) EXCEPT !.parts = orderedPartList])
    /\ UNCHANGED <<_uploadId, _stream, _queue, _uploadedSize, _md5sum, timer, fileExists,
                   q, plan, remoteVars, pureVars>>

\* crypto.md5stream settles inside _completeUpload: completeMultipartUpload is issued.
completeMD5Done(i) ==
    /\ co[i].pc = "cmd5"
    /\ IF fileExists
       THEN /\ _md5sum' = LocalMD5
            /\ Suspend(i, [CoAt("complete", _uploadId) EXCEPT !.parts = co[i].parts])
       ELSE /\ _md5sum' = _md5sum
            /\ Terminal(i, _checkError(_paused, i, ENOENT))
    /\ UNCHANGED <<_uploadId, _stream, _queue, _uploadedSize, timer, fileExists,
                   q, plan, remoteVars, pureVars>>

\* completeMultipartUpload settles: _checkFinish, or the catch.
completeDone(i, ok) ==
    /\ co[i].pc = "complete"
    /\ ok => co[i].sid \notin rclosed
    /\ IF ok
       THEN /\ rclosed' = rclosed \cup {co[i].sid}
            /\ Terminal(i, _checkFinish(_paused, i))
       ELSE /\ rclosed' = rclosed
            /\ Terminal(i, _checkError(_paused, i, ServerError))
    /\ UNCHANGED <<_uploadId, _stream, _queue, _uploadedSize, _md5sum, timer, fileExists,
                   q, plan, nSessions, rparts, pureVars>>

\* A stream in flight reports progress: _checkAlive is (re)armed.
progress(i) ==
    /\ q[i].run = "open"
    /\ timer' = TRUE
    /\ out' = <<>>
    /\ UNCHANGED <<sessionFields, fileExists, co, q, plan, term, remoteVars, pureVars>>

\* The debounced _checkAlive fires: this._stream.emit('abort').
_checkAlive ==
    /\ timer
    /\ timer' = FALSE
    /\ q' = [q EXCEPT ![_stream].run = StreamAbort(@, "timerAbort")]
    /\ out' = <<>>
    /\ UNCHANGED <<sessionFields, fileExists, co, plan, term, remoteVars, pureVars>>

\* The environment removes the local file.
unlink ==
    /\ fileExists
    /\ fileExists' = FALSE
    /\ out' = <<>>
    /\ UNCHANGED <<sessionFields, timer, co, q, plan, term, remoteVars, pureVars>>

\* Every step but a start() call.
Others ==
    \/ pause
    \/ \E i \in Inv, res \in MetaResponses : getObjectMetadataDone(i, res)
    \/ \E i \in Inv : checkMD5Done(i)
    \/ \E i \in Inv, ok \in BOOLEAN : initiateDone(i, ok)
    \/ \E i \in Inv, ok \in BOOLEAN : listPartsDone(i, ok)
    \/ \E i \in Inv : queueProcess(i)
    \/ \E i \in Inv, ok \in BOOLEAN : putPartDone(i, ok)
    \/ \E i \in Inv, ok \in BOOLEAN : completeListDone(i, ok)
    \/ \E i \in Inv : completeMD5Done(i)
    \/ \E i \in Inv, ok \in BOOLEAN : completeDone(i, ok)
    \/ \E i \in Inv : progress(i)
    \/ _checkAlive
    \/ unlink

Next == (\E i \in Inv : start(i)) \/ Others

Spec == Init /\ [][Next]_vars

\* A caller that calls start() only while isPaused() answers true: at first,
\* after pause(), and after a terminal notification.
startWhilePaused(i) == _paused /\ start(i)
NextSeparated == (\E i \in Inv : startWhilePaused(i)) \/ Others
SpecSeparated == Init /\ [][NextSeparated]_vars

\* The same caller, with the one thing the runtime guarantees of a stalled
\* connection: a pending debounced call is made when its 10 s have passed.
\* Nothing makes a request settle or a stream report progress.
SpecStall == Init /\ [][NextSeparated]_vars /\ WF_vars(_checkAlive)

\* The I/O completions of the start() call i: each Storage Client call, hash
\* and scheduled queue step it is waiting on settles, one way or the other.
Completion(i) ==
    \/ \E res \in MetaResponses : getObjectMetadataDone(i, res)
    \/ checkMD5Done(i)
    \/ \E ok \in BOOLEAN : initiateDone(i, ok)
    \/ \E ok \in BOOLEAN : listPartsDone(i, ok)
    \/ queueProcess(i)
    \/ \E ok \in BOOLEAN : putPartDone(i, ok)
    \/ \E ok \in BOOLEAN : completeListDone(i, ok)
    \/ completeMD5Done(i)
    \/ \E ok \in BOOLEAN : completeDone(i, ok)

\* The same caller, every I/O completion being weakly fair.
SpecFair == Init /\ [][NextSeparated]_vars /\ \A i \in Inv : WF_vars(Completion(i))

\* ------------------------------------------- _decompose on its own ----
\* n accepted parts as listParts returns them, sorted.
Accepted(n) == [k \in 1..n |-> [partNumber |-> k, size |-> kPartSize]]

DecInputs ==
    {[done |-> FALSE, orderedParts |-> Accepted(n), maxParts |-> m, uploadSize |-> u,
      totalSize |-> t, remainParts |-> <<>>] :
        n \in 0..MaxAccepted, m \in 1..MaxMaxParts, u \in 0..MaxTotal, t \in 0..MaxTotal}

InitDecompose ==
    /\ InitSession
    /\ cc = NoCc
    /\ dec \in {d \in DecInputs : Len(d.orderedParts) <= d.maxParts /\ d.uploadSize <= d.totalSize}

decompose ==
    /\ ~dec.done
    /\ dec' = [dec EXCEPT !.done = TRUE,
                          !.remainParts = _decompose(dec.orderedParts, dec.maxParts,
                                                     dec.uploadSize, dec.totalSize)]
    /\ UNCHANGED <<sessionFields, timer, fileExists, co, q, plan, term, remoteVars, out, cc>>

SpecDecompose == InitDecompose /\ [][decompose]_vars

\* ------------------------------------ _checkConsistency on its own ----
\* Every response of getObjectMetadata, with this._md5sum unset or cached.
InitConsistency ==
    /\ InitSession
    /\ dec = NoDec
    /\ cc \in [done : {FALSE}, res : MetaResponses, cached : {"", LocalMD5}, result : {""}]

checkConsistency ==
    /\ ~cc.done
    /\ cc' = [cc EXCEPT !.done = TRUE,
                        !.result = _checkConsistency(FileSize, LocalMTime, cc.res,
                                       IF NeedsHash(FileSize, cc.res)
                                       THEN _computedFileMD5(cc.cached, FileSize)
                                       ELSE cc.cached)]
    /\ UNCHANGED <<sessionFields, timer, fileExists, co, q, plan, term, remoteVars, out, dec>>

SpecConsistency == InitConsistency /\ [][checkConsistency]_vars

\* ------------------------------------------------------------- claims ----
\* What a step issues to the Storage Client.
IssuedPut(i) == q'[i].cur # NoPart /\ q'[i].cur # q[i].cur
IssuedInit(i) == co'[i].pc = "init" /\ co[i].pc # "init"
IssuedComplete(i) == co'[i].pc = "complete" /\ co[i].pc # "complete"
IssuedGet(i) == co'[i].pc = "meta" /\ co[i].pc # "meta"
IssuedList(i) == co'[i].pc \in {"list", "clist"} /\ co'[i].pc # co[i].pc
IssuedAny ==
    \E j \in Inv : IssuedPut(j) \/ IssuedInit(j) \/ IssuedComplete(j) \/ IssuedGet(j) \/ IssuedList(j)

\* C1: every start() call leads to at most one terminal notification (finish,
\* pause or error), whatever phase of it pause() is called in.
C1_AtMostOneTerminal == \A i \in Inv : term[i] <= 1

\* C2: while _paused is true no step issues a put-part, an initiate or a
\* complete call.
C2_NoUploadWhilePaused ==
    [][_paused => \A i \in Inv : ~IssuedPut(i) /\ ~IssuedInit(i) /\ ~IssuedComplete(i)]_vars

\* C3: when the put-part request of a stream aborted by pause() settles, no
\* error notification is emitted, whatever the caller did in between.
C3_PauseAbortIsNotError ==
    [][\A i \in Inv :
         q[i].run = "pauseAbort" /\ q'[i].run # "pauseAbort"
         => \A k \in DOMAIN out' : out'[k].type # "error"]_vars

\* C4: at most one put-part request (one open part stream) is in flight.
C4_OneStreamInFlight == Cardinality({i \in Inv : q[i].run = "open"}) <= 1

\* C5: a put-part issued by a start() covers only bytes at or after the sum of
\* the sizes listParts returned to it, and its part number is not one the
\* remote session has already accepted.
C5_NoReupload ==
    [][\A i \in Inv :
         IssuedPut(i)
         => /\ q'[i].cur.start >= SumSizes(plan'[i].listed)
            /\ q'[i].cur.partNumber \notin
                   {p.partNumber : p \in rparts'[q'[i].cur.uploadId]}]_vars

\* The part numbers of the listed parts followed by those of the new parts.
PartNumbers(pl) ==
    [k \in 1..(Len(pl.listed) + Len(pl.remain)) |->
        IF k <= Len(pl.listed) THEN pl.listed[k].partNumber
        ELSE pl.remain[k - Len(pl.listed)].partNumber]

\* C8: the part numbers listParts returned to a start(), followed by those of
\* the parts it generated, increase by one at each step: no duplicate, no gap.
C8_PartNumbersContiguous ==
    \A i \in Inv :
        plan[i].made =>
            \A k \in 1..(Len(PartNumbers(plan[i])) - 1) :
                PartNumbers(plan[i])[k + 1] = PartNumbers(plan[i])[k] + 1

\* C10: a start() call made while the local path does not exist emits the
\* file-not-found error and issues no Storage Client call.
C10_MissingFile ==
    [][\A i \in Inv :
         co[i].pc = "idle" /\ co'[i].pc # "idle" /\ ~fileExists
         => /\ out' = <<Ev("error", i, FileNotFound.message)>>
            /\ co'[i].pc = "done"
            /\ ~IssuedAny]_vars

\* C10's case: start() on a missing file, on a session that already holds an
\* upload id and has a stream behind it.
C10_Witness ==
    \E i \in Inv :
        /\ ~fileExists /\ _uploadId # 0 /\ _stream # 0
        /\ co[i].pc = "done"
        /\ out = <<Ev("error", i, FileNotFound.message)>>

\* C6: for n <= maxParts accepted parts and uploadSize <= totalSize, _decompose
\* returns at most maxParts - n parts, each but the last of at least kPartSize.
C6_PartCount ==
    dec.done =>
        /\ Len(dec.remainParts) <= dec.maxParts - Len(dec.orderedParts)
        /\ \A k \in 1..(Len(dec.remainParts) - 1) : dec.remainParts[k].partSize >= kPartSize

RECURSIVE SumPartSizes(_)
SumPartSizes(r) == IF r = <<>> THEN 0 ELSE Head(r).partSize + SumPartSizes(Tail(r))

\* C7: the parts _decompose returns start at uploadSize, each next one starts
\* where the previous ends, and their lengths add up to totalSize - uploadSize.
C7_Contiguous ==
    dec.done =>
        LET r == dec.remainParts IN
        /\ r # <<>> => r[1].start = dec.uploadSize
        /\ \A k \in 1..Len(r) : r[k].partSize > 0
        /\ \A k \in 1..(Len(r) - 1) : r[k + 1].start = r[k].start + r[k].partSize
        /\ SumPartSizes(r) = dec.totalSize - dec.uploadSize

\* C7's case: a resumed file cut into several parts, the last one shorter.
C7_Witness ==
    /\ dec.done
    /\ dec.uploadSize > 0
    /\ Len(dec.remainParts) >= 2
    /\ dec.remainParts[Len(dec.remainParts)].partSize < dec.remainParts[1].partSize

\* The three comparisons of the consistency check against the local file.
SizeMatches(res) == res.xMetaSize = FileSize
TagMatches(res) == res.xMetaFrom = TransportOrigin
HashOrMTimeMatches(res) ==
    IF res.xMetaMD5 # "" THEN res.xMetaMD5 = LocalMD5 ELSE res.xMetaModifiedTime = LocalMTime

\* C9 as stated: true when size, origin tag and hash-or-mtime all match, false
\* on any mismatch among them, false when getObjectMetadata fails with 404.
C9_FalseOnAnyMismatch ==
    cc.done =>
        /\ cc.res.status = 200 =>
             cc.result = IF SizeMatches(cc.res) /\ TagMatches(cc.res) /\ HashOrMTimeMatches(cc.res)
                         THEN "true" ELSE "false"
        /\ cc.res.status = 404 => cc.result = "false"

\* C9 as amended: with the sizes equal, an origin tag that is absent or foreign
\* makes the answer true whatever the hash and the mtime; with the tag of this
\* transport the hash (or, without one, the mtime) decides; 404 answers false.
C9_Consistency ==
    cc.done =>
        /\ cc.res.status = 200 =>
             cc.result = IF SizeMatches(cc.res) /\ (~TagMatches(cc.res) \/ HashOrMTimeMatches(cc.res))
                         THEN "true" ELSE "false"
        /\ cc.res.status = 404 => cc.result = "false"

\* C9's case: same size, foreign tag, another hash and mtime: answered true.
C9_Witness ==
    /\ cc.done
    /\ cc.res.status = 200
    /\ SizeMatches(cc.res) /\ ~TagMatches(cc.res) /\ ~HashOrMTimeMatches(cc.res)
    /\ cc.result = "true"

\* A put-part request of coroutine i settles in this step.
SettledPut(i) == q[i].cur # NoPart /\ q'[i].cur # q[i].cur

\* C11: _uploadedSize never decreases, and each change of it is the partSize of
\* a put-part request that settles in the same step.
C11_UploadedSizeMonotone ==
    [][_uploadedSize' # _uploadedSize
       => \E i \in Inv : /\ SettledPut(i)
                         /\ q[i].run = "open"
                         /\ _uploadedSize' = _uploadedSize + q[i].cur.partSize]_vars

\* The local file is read for its hash (crypto.md5stream is running), or its
\* hash is held by the session.
HashTaken == _md5sum # "" \/ \E i \in Inv : co[i].pc \in {"md5", "cmd5"}

\* C12: for a file of the ceiling's size or more, _computedFileMD5 does not
\* read the file and returns no hash: none is compared, none attached.
C12_NoHashAboveCeiling == FileSize >= kHashCeiling => ~HashTaken

\* C13: a part stream does not stay in flight for ever with the idle timer
\* never armed again: a stream that stops reporting progress, be it before its
\* first report, is eventually aborted.
C13_StalledStreamAborted == \A i \in Inv : []<>(q[i].run # "open" \/ timer)

\* The completeMultipartUpload call of coroutine i succeeds in this step.
CompleteSucceeds(i) == co[i].pc = "complete" /\ co'[i].pc = "done" /\ co[i].sid \in rclosed'

\* C14: when the completeMultipartUpload call of a start() succeeds, the
\* notification that ends that start() is finish.
C14_FinishAfterComplete ==
    [][\A i \in Inv : CompleteSucceeds(i) => out' = <<Ev("finish", i, "")>>]_vars

\* No part stream is active: no queue has a put-part request that has not settled.
NoStreamActive == \A i \in Inv : q[i].run \in {"none", "sched", "idle"}

\* A pause() call on a session that was not paused: the only step that sets
\* _paused and ends no coroutine.
PauseCalled == ~_paused /\ _paused' /\ co' = co

\* C15: a pause() call made while no part stream is active emits the pause
\* notification within the call.
C15_PauseNotifiesAtOnce ==
    [][PauseCalled /\ NoStreamActive => out' = <<Ev("pause", 0, "")>>]_vars

\* The remote object has the size of the local file and an origin tag that is
\* absent or not this transport's.
ForeignSameSize(res) == res.status = 200 /\ SizeMatches(res) /\ ~TagMatches(res)

Started(i) == co[i].pc = "idle" /\ co'[i].pc # "idle" /\ fileExists

\* C17 as stated: every start() call on an existing file issues
\* getObjectMetadata first, whether or not an upload id is held.
C17_AlwaysChecks == [][\A i \in Inv : Started(i) => IssuedGet(i)]_vars

\* C17 as amended: a start() on a session without an upload id issues
\* getObjectMetadata first, initiates only on its outcome and lists only after
\* initiating; a start() on a session that holds an upload id issues listParts
\* on that id at once, with no consistency check.
C17_ChecksUnlessSessionHeld ==
    [][\A i \in Inv :
         /\ Started(i) => IF _uploadId = 0 THEN IssuedGet(i)
                          ELSE co'[i].pc = "list" /\ co'[i].sid = _uploadId
         /\ IssuedInit(i) => co[i].pc \in {"meta", "md5"}
         /\ co[i].pc # "list" /\ co'[i].pc = "list"
            => co[i].pc = "init" \/ (co[i].pc = "idle" /\ _uploadId # 0)]_vars

\* C17's case: the first start() initiated the only upload there is, planned
\* its parts and ended; the second start() is listing the parts of that
\* upload, having made no check.
C17_Witness ==
    /\ co[1].pc = "done" /\ plan[1].made
    /\ co[2].pc = "list" /\ co[2].sid = 1
    /\ nSessions = 1

\* The put-part request of coroutine i that settles in this step has failed:
\* no part size was added to _uploadedSize.
FailedPut(i) == SettledPut(i) /\ _uploadedSize' = _uploadedSize

\* C18: within the queue of one resume(), a put-part is issued with a higher
\* part number than the one before it and only when that one has succeeded;
\* when one fails the queue issues no other, drops its remaining tasks, and
\* the resume() that start() awaits rejects.
C18_SequentialQueue ==
    [][\A i \in Inv :
         /\ IssuedPut(i) /\ q[i].cur # NoPart
            => /\ q'[i].cur.partNumber > q[i].cur.partNumber
               /\ ~FailedPut(i)
         /\ FailedPut(i)
            => /\ q'[i].cur = NoPart /\ q'[i].tasks = <<>>
               /\ co[i].pc = "upload" => co'[i].pc = "done"]_vars

\* The part numbers the remote session u has accepted.
AcceptedNumbers(u) == {p.partNumber : p \in rparts[u]}

\* C19: completeMultipartUpload is issued by a start() only from its
\* _completeUpload, with its queue drained and not killed, every part of its
\* plan accepted by the session it completes, and a part list that adds up to
\* the size of the local file.
C19_CompleteOnlyWhenWhole ==
    [][\A i \in Inv :
         IssuedComplete(i)
         => /\ co[i].pc \in {"clist", "cmd5"}
            /\ q[i].tasks = <<>> /\ q[i].cur = NoPart /\ ~q[i].killed
            /\ \A k \in DOMAIN plan[i].remain :
                   plan[i].remain[k].partNumber \in AcceptedNumbers(co'[i].sid)
            /\ SumSizes(co'[i].parts) = FileSize]_vars

\* C20: every start() call that is running eventually ends with a terminal
\* notification, the paused flag true.
C20_StartTerminates == \A i \in Inv : InFlight(i) ~> (co[i].pc = "done" /\ _paused)

====
